---------------------------- MODULE Spec2Model ----------------------------
(***************************************************************************)
(* Model of helper_scripts/template_match.py: one invocation of main(),    *)
(* from the argument check to the process exit, with the scale sweep of    *)
(* multi_scale_template_search unrolled one loop iteration per step.       *)
(*                                                                         *)
(* Spec is the program: main() with the sweep it passes, 0.4 to 1.6 by     *)
(* 0.05.  SearchSpec is one call of multi_scale_template_search on two     *)
(* edge maps with any of several sweeps, from its first line to its        *)
(* return.                                                                 *)
(*                                                                         *)
(* Units.  Scores and thresholds are integers in tenths (0.70 is 7, the    *)
(* initial -1.0 is -10).  Scale factors are integers in twentieths (0.05   *)
(* is 1, 0.4 is 8, 1.6 is 32), so every scale of a sweep is a whole        *)
(* number of units; the 1e-9 tolerance of the loop guard is far smaller    *)
(* than one unit and admits no further grid point.  Images are reduced to  *)
(* their shape (h, w): load_gray, edge_image and cv2.resize decide the     *)
(* shape, cv2.matchTemplate decides score and location.                    *)
(***************************************************************************)
EXTENDS Integers, Sequences, FiniteSets

VARIABLES
    pc,          \* position in main(): the statement about to run
    thresh,      \* main: thresh
    debug_out,   \* main: debug_out is not None
    large,       \* shape [h, w] of the target image (large / large_e)
    templ,       \* shape [h, w] of the template image (templ / templ_e)
    scales,      \* multi_scale_template_search: (min_s, max_s, step)
    s,           \* multi_scale_template_search: s
    best,        \* multi_scale_template_search / main: best (a dict)
    out,         \* main: out, <<>> before line 65
    stdout,      \* the JSON documents printed, in order
    usage,       \* the usage line was printed
    exc,         \* the uncaught exception that ended the run, or "none"
    exitCode,    \* the process exit status, NoExit while running
    debugFile,   \* the debug image was written
    visited,     \* history: the scales the loop body ran for, in order
    last,        \* history: what the latest loop iteration did
    seen         \* history: the scores the iterations so far produced

vars == <<pc, thresh, debug_out, large, templ, scales, s, best, out, stdout,
          usage, exc, exitCode, debugFile, visited, last, seen>>

----------------------------------------------------------------------------
(* Bounds of the model *)

MaxTarget == 4    \* target images are up to MaxTarget x MaxTarget
MaxTempl == 3     \* template images are up to MaxTempl x MaxTempl

(* Program constants *)

ScaleDen == 20        \* scale units per 1.0: the step 0.05 is one unit
MainMinS == 8         \* scales=(0.4, ...
MainMaxS == 32        \*          1.6, ...
MainStep == 1         \*               0.05) at the call in main
DefMinS == 10         \* scales=(0.5, ...
DefMaxS == 30         \*          1.5, ...
DefStep == 1          \*               0.05) default of the signature
InitScore == -10      \* best = {"score": -1.0}
DefaultThresh == 7    \* thresh = 0.70
MinFootprint == 2     \* max(2, ...)
ExitFound == 0        \* sys.exit(0)
ExitNotFound == 1     \* sys.exit(1)
ExitUncaught == 1     \* CPython's status for an uncaught exception
ExitReturned == 0     \* CPython's status when the script runs to its end
NoExit == -1
NoScale == -1

(* Input domains *)

\* The sweep main passes.
MainScales == <<MainMinS, MainMaxS, MainStep>>

\* The sweeps of a call of the search: the one main passes, the default of
\* the signature, and short ones (max_s off the grid of whole steps, a
\* single scale, a coarse step).
ScaleRanges ==
    { MainScales, <<DefMinS, DefMaxS, DefStep>>,
      <<8, 13, 2>>, <<20, 20, 1>>, <<16, 40, 12>> }

\* Scores cv2.matchTemplate + minMaxLoc can give for TM_CCOEFF_NORMED, in
\* tenths.  The maximum over the windows lies in (-1.0, 1.0]: the footprint
\* is strictly smaller than the target, so there are at least two windows
\* along each axis, and a two-valued edge map cannot be perfectly
\* anti-correlated with the template in two windows one pixel apart.
ScoreVals == {-5, 7}

\* Values of --thresh: the initial score, a score, above every score.
ThreshArgs == {InitScore, 7, 11}

\* The windows minMaxLoc is taken to report along an axis of n windows: the
\* first and the last, the two nearest the edges of the target.
Locs(n) == {0, n - 1}

Shapes(lo, hi) == [h : lo..hi, w : lo..hi]

----------------------------------------------------------------------------
(* Pure helpers *)

\* Python 3 round() of the non-negative rational n/d: to nearest, ties to even.
PyRound(n, d) ==
    LET q == n \div d
        r == n % d
    IN  IF 2 * r < d THEN q
        ELSE IF 2 * r > d THEN q + 1
        ELSE IF q % 2 = 0 THEN q ELSE q + 1

PyMax(a, b) == IF a >= b THEN a ELSE b

\* max(2, int(dim * s)): the product truncated, not rounded
FootprintTrunc(dim, sv) == PyMax(MinFootprint, (dim * sv) \div ScaleDen)

\* max(2, int(round(dim * s)))
Footprint(dim, sv) == PyMax(MinFootprint, PyRound(dim * sv, ScaleDen))

\* while s < max_s: the upper bound left out
InRangeExclusive(sv, max_s) == sv < max_s

\* while s <= max_s + 1e-9, on the grid of scale units
InRange(sv, max_s) == sv <= max_s

\* if th >= large.shape[0] or tw >= large.shape[1]
TooBig(th, tw, shape) == th >= shape.h \/ tw >= shape.w

\* cv2.matchTemplate: the result has one entry per window of the target
ResultCols(shape, tw) == shape.w - tw + 1
ResultRows(shape, th) == shape.h - th + 1

\* if score >= best["score"]: a tie replaces the running best
BetterOrEqual(score, b) == score >= b.score

\* if score > -1.0: compared with the initial score, not the running best
BetterThanInit(score, b) == score > InitScore

\* if score > best["score"]
Better(score, b) == score > b.score

\* the candidate with "w" and "h" exchanged
CandidateSwapped(score, sv, tw, th, x, y) ==
    [score |-> score, scale |-> sv, w |-> th, h |-> tw, x |-> x, y |-> y]

\* {"score": ..., "scale": ..., "w": tw, "h": th, "x": ..., "y": ...}
Candidate(score, sv, tw, th, x, y) ==
    [score |-> score, scale |-> sv, w |-> tw, h |-> th, x |-> x, y |-> y]

\* if best["score"] > thresh: a score equal to the threshold is no match
FoundStrict(b, t) == b.score > t

\* if best["score"] >= thresh
Found(b, t) == b.score >= t

\* best["x"], best["y"], best["w"], best["h"] raise KeyError on a dict
\* that lacks them
HasBox(b) == {"x", "y", "w", "h"} \subseteq DOMAIN b

MatchBox(b) == [x |-> b.x, y |-> b.y, w |-> b.w, h |-> b.h]

NoIter ==
    [kind |-> "none", scale |-> NoScale, tw |-> 0, th |-> 0,
     score |-> InitScore]

----------------------------------------------------------------------------
Init ==
    /\ pc = "main"
    /\ thresh = DefaultThresh
    /\ debug_out = FALSE
    /\ large = [h |-> 0, w |-> 0]
    /\ templ = [h |-> 0, w |-> 0]
    /\ scales = MainScales
    /\ s = 0
    /\ best = [score |-> InitScore]
    /\ out = <<>>
    /\ stdout = <<>>
    /\ usage = FALSE
    /\ exc = "none"
    /\ exitCode = NoExit
    /\ debugFile = FALSE
    /\ visited = <<>>
    /\ last = NoIter
    /\ seen = {}

\* A call multi_scale_template_search(large, templ, scales) on two edge
\* maps, about to run its first line.
SearchInit ==
    /\ pc = "search"
    /\ thresh = DefaultThresh
    /\ debug_out = FALSE
    /\ large \in Shapes(2, MaxTarget)
    /\ templ \in Shapes(1, MaxTempl)
    /\ scales \in ScaleRanges
    /\ s = 0
    /\ best = [score |-> InitScore]
    /\ out = <<>>
    /\ stdout = <<>>
    /\ usage = FALSE
    /\ exc = "none"
    /\ exitCode = NoExit
    /\ debugFile = FALSE
    /\ visited = <<>>
    /\ last = NoIter
    /\ seen = {}

\* An uncaught exception: traceback, status 1, nothing further runs.
Raise(name) ==
    /\ exc' = name
    /\ exitCode' = ExitUncaught
    /\ pc' = "done"

\* lines 41-43: fewer than two positional arguments: the usage line and
\* `return 2`; line 84 calls main() and drops its value, so the process
\* ends with the status of a script that ran to its end.
MissingArgs ==
    /\ pc = "main"
    /\ usage' = TRUE
    /\ exitCode' = ExitReturned
    /\ pc' = "done"
    /\ UNCHANGED <<thresh, debug_out, large, templ, scales, s, best, out,
                   stdout, exc, debugFile, visited, last, seen>>

\* lines 44-55: the option loop.
ParseArgs ==
    /\ pc = "main"
    /\ \E t \in ThreshArgs \cup {DefaultThresh}, d \in BOOLEAN :
          /\ thresh' = t
          /\ debug_out' = d
    /\ pc' = "load_large"
    /\ UNCHANGED <<large, templ, scales, s, best, out, stdout, usage, exc,
                   exitCode, debugFile, visited, last, seen>>

\* line 52: float(args[i]) on a value that is no number, or no value at all
BadOption ==
    /\ pc = "main"
    /\ Raise("ValueError")
    /\ UNCHANGED <<thresh, debug_out, large, templ, scales, s, best, out,
                   stdout, usage, debugFile, visited, last, seen>>

\* line 57, load_gray(img_path) lines 7-13
LoadLarge ==
    /\ pc = "load_large"
    /\ \/ /\ \E sh \in Shapes(2, MaxTarget) : large' = sh
          /\ pc' = "load_templ"
          /\ UNCHANGED <<exc, exitCode>>
       \/ /\ Raise("FileNotFoundError")
          /\ UNCHANGED large
    /\ UNCHANGED <<thresh, debug_out, templ, scales, s, best, out, stdout,
                   usage, debugFile, visited, last, seen>>

\* line 58, load_gray(tpl_path) lines 7-13
LoadTempl ==
    /\ pc = "load_templ"
    /\ \/ /\ \E sh \in Shapes(1, MaxTempl) : templ' = sh
          /\ pc' = "search"
          /\ UNCHANGED <<exc, exitCode>>
       \/ /\ Raise("FileNotFoundError")
          /\ UNCHANGED templ
    /\ UNCHANGED <<thresh, debug_out, large, scales, s, best, out, stdout,
                   usage, debugFile, visited, last, seen>>

\* lines 60-63 and 20-23: the edge maps keep the shapes; the search starts.
EnterSearch ==
    /\ pc = "search"
    /\ best' = [score |-> InitScore]
    /\ s' = scales[1]
    /\ pc' = "loop"
    /\ UNCHANGED <<thresh, debug_out, large, templ, scales, out, stdout,
                   usage, exc, exitCode, debugFile, visited, last, seen>>

\* lines 24-29: an iteration whose footprint does not fit
SkipScale ==
    /\ pc = "loop"
    /\ InRange(s, scales[2])
    /\ LET th == Footprint(templ.h, s)
           tw == Footprint(templ.w, s)
       IN  /\ TooBig(th, tw, large)
           /\ last' = [kind |-> "skipped", scale |-> s, tw |-> tw,
                       th |-> th, score |-> InitScore]
    /\ visited' = Append(visited, s)
    /\ s' = s + scales[3]
    /\ UNCHANGED <<pc, thresh, debug_out, large, templ, scales, best, out,
                   stdout, usage, exc, exitCode, debugFile, seen>>

\* lines 24-27 and 30-37: an iteration that resizes, correlates and compares
ScoreScale ==
    /\ pc = "loop"
    /\ InRange(s, scales[2])
    /\ LET th == Footprint(templ.h, s)
           tw == Footprint(templ.w, s)
       IN  /\ ~TooBig(th, tw, large)
           /\ \E score \in ScoreVals,
                 x \in Locs(ResultCols(large, tw)),
                 y \in Locs(ResultRows(large, th)) :
                 /\ best' = IF Better(score, best)
                            THEN Candidate(score, s, tw, th, x, y)
                            ELSE best
                 /\ seen' = seen \cup {score}
                 /\ last' = [kind |-> "scored", scale |-> s, tw |-> tw,
                             th |-> th, score |-> score]
    /\ visited' = Append(visited, s)
    /\ s' = s + scales[3]
    /\ UNCHANGED <<pc, thresh, debug_out, large, templ, scales, out, stdout,
                   usage, exc, exitCode, debugFile>>

\* lines 24 and 38: the guard fails, the search returns best
ReturnBest ==
    /\ pc = "loop"
    /\ ~InRange(s, scales[2])
    /\ pc' = "decide"
    /\ UNCHANGED <<thresh, debug_out, large, templ, scales, s, best, out,
                   stdout, usage, exc, exitCode, debugFile, visited, last,
                   seen>>

\* lines 65-70 and 79
Decide ==
    /\ pc = "decide"
    /\ IF Found(best, thresh)
       THEN IF HasBox(best)
            THEN /\ out' = << [found |-> TRUE, best |-> best,
                               threshold |-> thresh,
                               match_box |-> MatchBox(best)] >>
                 /\ pc' = IF debug_out THEN "debug" ELSE "print_found"
                 /\ UNCHANGED <<exc, exitCode>>
            ELSE /\ out' = << [found |-> TRUE, best |-> best,
                               threshold |-> thresh] >>
                 /\ Raise("KeyError")
       ELSE /\ out' = << [found |-> FALSE, best |-> best,
                          threshold |-> thresh] >>
            /\ pc' = "print_notfound"
            /\ UNCHANGED <<exc, exitCode>>
    /\ UNCHANGED <<thresh, debug_out, large, templ, scales, s, best, stdout,
                   usage, debugFile, visited, last, seen>>

\* lines 71-75: cv2.imencode raises on an extension it has no encoder for,
\* buf.tofile raises when the path cannot be written
WriteDebug ==
    /\ pc = "debug"
    /\ \/ /\ debugFile' = TRUE
          /\ pc' = "print_found"
          /\ UNCHANGED <<exc, exitCode>>
       \/ /\ Raise("DebugWriteError")
          /\ UNCHANGED debugFile
    /\ UNCHANGED <<thresh, debug_out, large, templ, scales, s, best, out,
                   stdout, usage, visited, last, seen>>

\* lines 77-78
PrintFound ==
    /\ pc = "print_found"
    /\ stdout' = Append(stdout, out[1])
    /\ exitCode' = ExitFound
    /\ pc' = "done"
    /\ UNCHANGED <<thresh, debug_out, large, templ, scales, s, best, out,
                   usage, exc, debugFile, visited, last, seen>>

\* lines 80-81
PrintNotFound ==
    /\ pc = "print_notfound"
    /\ stdout' = Append(stdout, out[1])
    /\ exitCode' = ExitNotFound
    /\ pc' = "done"
    /\ UNCHANGED <<thresh, debug_out, large, templ, scales, s, best, out,
                   usage, exc, debugFile, visited, last, seen>>

Next ==
    \/ MissingArgs
    \/ ParseArgs
    \/ BadOption
    \/ LoadLarge
    \/ LoadTempl
    \/ EnterSearch
    \/ SkipScale
    \/ ScoreScale
    \/ ReturnBest
    \/ Decide
    \/ WriteDebug
    \/ PrintFound
    \/ PrintNotFound

Spec == Init /\ [][Next]_vars

\* The steps of a call of the search, up to its return.
SearchNext ==
    \/ EnterSearch
    \/ SkipScale
    \/ ScoreScale
    \/ ReturnBest

SearchSpec == SearchInit /\ [][SearchNext]_vars

\* The interpreter runs the call to its end: no step is postponed for ever.
FairSearchSpec == SearchSpec /\ WF_vars(SearchNext)

----------------------------------------------------------------------------
(* Properties *)

AfterSearch == pc \in {"decide", "debug", "print_found", "print_notfound"}
               \/ (pc = "done" /\ out # <<>>)

RECURSIVE SetMax(_)
SetMax(S) ==
    LET v == CHOOSE e \in S : TRUE
    IN  IF S = {v} THEN v ELSE PyMax(v, SetMax(S \ {v}))

\* C1: every printed result has found = TRUE exactly when its best.score
\* is at least its threshold.
TheoremC1 ==
    \A i \in 1..Len(stdout) :
        stdout[i].found <=> (stdout[i].best.score >= stdout[i].threshold)

\* A result was printed whose best score equals the threshold.
WitnessC1 ==
    /\ Len(stdout) = 1
    /\ stdout[1].found
    /\ stdout[1].best.score = stdout[1].threshold

\* C2: found, not found and input errors (missing arguments, an image that
\* cannot be read) end with three different exit codes: the success code,
\* the not-found code, and codes that are neither.
ClaimC2 ==
    pc = "done" =>
        /\ (stdout # <<>> /\ stdout[1].found) => exitCode = ExitFound
        /\ (stdout # <<>> /\ ~stdout[1].found) =>
               exitCode = ExitNotFound /\ exitCode # ExitFound
        /\ (usage \/ exc = "FileNotFoundError") =>
               exitCode \notin {ExitFound, ExitNotFound}

\* C3: when every scale of the sweep was skipped, the run ends with a
\* printed result with found = FALSE and without an uncaught exception,
\* whatever the threshold.
ClaimC3 ==
    (pc = "done" /\ out # <<>> /\ seen = {}) =>
        /\ exc = "none"
        /\ Len(stdout) = 1
        /\ ~stdout[1].found

\* C4: every printed result carries threshold and a best with all of
\* score, scale, w, h, x and y.
ClaimC4 ==
    \A i \in 1..Len(stdout) :
        /\ "threshold" \in DOMAIN stdout[i]
        /\ DOMAIN stdout[i].best = {"score", "scale", "w", "h", "x", "y"}

\* C5: whenever best holds a candidate, its rectangle lies inside the
\* target: 0 <= x, 0 <= y, x + w <= target width, y + h <= target height.
TheoremC5 ==
    (DOMAIN best # {"score"}) =>
        /\ HasBox(best)
        /\ 0 <= best.x
        /\ 0 <= best.y
        /\ best.x + best.w <= large.w
        /\ best.y + best.h <= large.h

\* A non-square candidate that touches the right and bottom edges.
WitnessC5 ==
    /\ HasBox(best)
    /\ best.w # best.h
    /\ best.x > 0
    /\ best.x + best.w = large.w
    /\ best.y + best.h = large.h

\* C6, first half: once any scale has been scored, best is a candidate
\* whose score is the maximum of the scores produced so far.
C6Max ==
    IF seen = {}
    THEN best = [score |-> InitScore]
    ELSE HasBox(best) /\ best.score = SetMax(seen)

\* C6, second half: best only ever changes to the candidate of the scale
\* just scored, and only to a score that no earlier (lower) scale produced.
C6First ==
    best' # best =>
        /\ last'.kind = "scored"
        /\ best'.scale = last'.scale
        /\ best'.score = last'.score
        /\ last'.score \notin seen

\* C6: the returned candidate has the maximum score over the scored scales
\* and, among scales of that score, is the first (lowest) one.
TheoremC6 == [](C6Max) /\ [][C6First]_vars

\* The search returned a candidate that a later scale tied.
WitnessC6 ==
    /\ pc = "decide"
    /\ last.kind = "scored"
    /\ last.score = best.score
    /\ best.scale < last.scale
    /\ Cardinality(seen) = 2

\* C7: when the debug image cannot be written, the result is still printed,
\* with found = TRUE and the best of the search, and the run ends with the
\* success code.
ClaimC7 ==
    (pc = "done" /\ debug_out /\ out # <<>> /\ out[1].found /\ HasBox(best)
        /\ ~debugFile) =>
        /\ Len(stdout) = 1
        /\ stdout[1].found
        /\ stdout[1].best = best
        /\ exitCode = ExitFound

\* C8: a step changes best only to a strictly higher score, and a scored
\* iteration whose score is not higher leaves best as it was.
C8Step ==
    /\ best' # best => best'.score > best.score
    /\ (visited' # visited /\ last'.kind = "scored"
            /\ last'.score <= best.score) => best' = best

TheoremC8 == [][C8Step]_vars

\* An iteration scored lower than the running best.
WitnessC8 ==
    /\ pc = "loop"
    /\ last.kind = "scored"
    /\ last.score < best.score
    /\ best.scale < last.scale

\* C9, safety: the scales visited are min_s, min_s + step, ... in this
\* order, none above max_s; while the loop runs s is the next of them, and
\* once it has ended every one of them up to max_s was visited.
C9Inv ==
    LET n == Len(visited)
    IN  /\ \A i \in 1..n : visited[i] = scales[1] + (i - 1) * scales[3]
        /\ \A i \in 1..n : visited[i] <= scales[2]
        /\ pc = "loop" => s = scales[1] + n * scales[3]
        /\ AfterSearch =>
               n = ((scales[2] - scales[1]) \div scales[3]) + 1

IsFootprint(f, dim, sv) ==
    \E r \in 0..(dim * sv) :
        /\ 2 * r * ScaleDen - 2 * dim * sv <= ScaleDen
        /\ 2 * dim * sv - 2 * r * ScaleDen <= ScaleDen
        /\ (2 * r * ScaleDen - 2 * dim * sv \in {ScaleDen, -ScaleDen})
               => r % 2 = 0
        /\ f = IF r < 2 THEN 2 ELSE r

\* C10, per iteration: the footprint is the rounded, floored product, and
\* the iteration scores exactly when the footprint is strictly smaller
\* than the target in both dimensions.
C10Inv ==
    last.kind # "none" =>
        /\ IsFootprint(last.tw, templ.w, last.scale)
        /\ IsFootprint(last.th, templ.h, last.scale)
        /\ last.kind = "scored" <=>
               (last.tw < large.w /\ last.th < large.h)

\* C10, skipped iterations leave best as it was.
C10Skip ==
    (visited' # visited /\ last'.kind = "skipped") => best' = best

TheoremC10 == [](C10Inv) /\ [][C10Skip]_vars

\* An iteration skipped because the footprint is exactly as wide as the
\* target, after a candidate had been recorded.
WitnessC10 ==
    /\ last.kind = "skipped"
    /\ last.tw = large.w
    /\ last.th < large.h
    /\ HasBox(best)

=============================================================================
